---------------------------- MODULE Spec2Model ----------------------------
(***************************************************************************)
(* A model of cdown (src/main.py): the SourceCode bundle parser, the       *)
(* metadata filter, the source writer and the recursive proxy downloader.  *)
(*                                                                         *)
(* Texts.  A Python str is modelled as a sequence of tokens.  A token is   *)
(* either one character (the members of Chars1) or a fixed run of two or   *)
(* more ordinary characters (a "word": "pragma", "sources", "0xa", "..").  *)
(* The vocabulary is uniquely decodable, so two token sequences are equal  *)
(* exactly when the strings they stand for are equal.  "?" stands for the  *)
(* remainder of a word that a character slice has cut.                     *)
(*                                                                         *)
(* JSON values.  A decoded value is a record [t, v]: t is its Python type  *)
(* ("str", "dict", "list", "int", "none") and v its payload (the tokens of *)
(* a str, the <<key, value>> pairs of a dict in insertion order, the       *)
(* elements of a list).                                                    *)
(*                                                                         *)
(* Local values.  A value the code binds to a local variable and then uses *)
(* several times is written  CHOOSE r \in {e : x \in {v}} : TRUE,  which is *)
(* e with x standing for the value of v, v being evaluated once.           *)
(***************************************************************************)
EXTENDS Naturals, Sequences, FiniteSets

VARIABLES
    blob,        \* ParseSpec: the SourceCode text T under test
    outT,        \* ParseSpec: outcome of _parse_source_code_object(T)
    outW,        \* ParseSpec: outcome of _parse_source_code_object("{" + T + "}")
    ppc,         \* ParseSpec: "build" while T is being built, "done" after decoding
    nWrap,       \* ParseSpec: brace layers added to T so far
    nEdit,       \* ParseSpec: tokens inserted into or lost from T so far
    frec,        \* FilterSpec: the metadata record
    fkeys,       \* FilterSpec: the key set A
    fres,        \* FilterSpec: the three results of filter_metadata
    fpc,         \* FilterSpec: "call" before filter_metadata ran, "done" after
    wcall,       \* WriteSpec: the arguments of write_sources (result, options)
    wst,         \* WriteSpec: the file system, the writes and the exception
    wpc,         \* WriteSpec: "call" before write_sources ran, "done" after
    call,        \* the arguments of the top-level download_contract_source_recursive
    stack,       \* the active calls of download_contract_source_recursive, outermost first
    visited,     \* the _visited set object shared by all the calls
    fetched,     \* the addresses fetch_source was called with, in order
    responses,   \* what each of those fetches gave: the result, or <<>> when it raised
    written,     \* the addresses write_sources was called for, in order
    disk,        \* the file system and the writes done to it
    exc,         \* the exception in flight ("" when there is none)
    status       \* of the top-level call: "running", "returned" or "raised"

parseVars == <<blob, outT, outW, ppc, nWrap, nEdit>>

dlVars == <<call, stack, visited, fetched, responses, written, disk, exc, status>>

filterVars == <<frec, fkeys, fres, fpc>>

writeVars == <<wcall, wst, wpc>>

\* the variables of the specifications of the pure functions
pureVars == <<parseVars, filterVars, writeVars>>

vars == <<pureVars, dlVars>>

----------------------------------------------------------------------------
(* Characters and tokens *)

Q == "\""

\* whitespace characters: str.strip() and the JSON decoder both skip them
WS == {" ", "CR", "LF"}

\* tokens that are one character long
Digits == {"0", "1", "2", "3", "4", "5", "6", "7", "8", "9"}

Chars1 ==
    {"{", "}", "[", "]", ",", ":", Q, "\\", "/", "*", "-", "n", "r", "?"} \cup Digits \cup WS

\* words that are exactly two characters long
Chars2 == {".."}

\* number of characters of a token, 3 standing for "three or more"
CharLen(tok) == IF tok \in Chars1 THEN 1 ELSE IF tok \in Chars2 THEN 2 ELSE 3

RECURSIVE LStrip(_)
LStrip(s) == IF s # <<>> /\ Head(s) \in WS THEN LStrip(Tail(s)) ELSE s

RECURSIVE RStrip(_)
RStrip(s) ==
    IF s # <<>> /\ s[Len(s)] \in WS
    THEN CHOOSE r \in {RStrip(t) : t \in {SubSeq(s, 1, Len(s) - 1)}} : TRUE
    ELSE s

Strip(s) == RStrip(LStrip(s))

\* s.startswith(p) for a prefix p made of whole tokens
StartsWith(s, p) == Len(s) >= Len(p) /\ SubSeq(s, 1, Len(p)) = p

EndsWith(s, p) == Len(s) >= Len(p) /\ SubSeq(s, Len(s) - Len(p) + 1, Len(s)) = p

\* s[1:-1]: the text without its first and its last character
Slice(s) ==
    IF s = <<>> THEN <<>>
    ELSE IF Len(s) = 1
         THEN (IF CharLen(s[1]) <= 2 THEN <<>> ELSE <<"?">>)
         ELSE (IF CharLen(s[1]) = 1 THEN <<>> ELSE <<"?">>)
              \o SubSeq(s, 2, Len(s) - 1)
              \o (IF CharLen(s[Len(s)]) = 1 THEN <<>> ELSE <<"?">>)

----------------------------------------------------------------------------
(* Decoded JSON values *)

JStr(s)  == [t |-> "str", v |-> s]
JDict(m) == [t |-> "dict", v |-> m]
JList(l) == [t |-> "list", v |-> l]
JInt(d)  == [t |-> "int", v |-> d]
JNone    == [t |-> "none", v |-> <<>>]

\* Python truthiness of a decoded value
Truthy(x) ==
    /\ x.t # "none"
    /\ x.v # <<>>
    /\ ~(x.t = "int" /\ x.v \in {<<"0">>, <<"-", "0">>})

\* positions of key k in the pairs m of a dict
KeyAt(m, k) == {i \in 1..Len(m) : m[i][1] = k}

HasKey(m, k) == KeyAt(m, k) # {}

Get(m, k) == m[CHOOSE i \in KeyAt(m, k) : TRUE][2]

\* d[k] = x on a Python dict: a present key keeps its position
Put(m, k, x) ==
    IF HasKey(m, k)
    THEN [i \in 1..Len(m) |-> IF m[i][1] = k THEN <<k, x>> ELSE m[i]]
    ELSE Append(m, <<k, x>>)

----------------------------------------------------------------------------
(* json.loads *)

NoParse == [ok |-> FALSE, val |-> JNone, next |-> 0]

Parsed(x, n) == [ok |-> TRUE, val |-> x, next |-> n]

RECURSIVE SkipWs(_, _)
SkipWs(s, i) == IF i <= Len(s) /\ s[i] \in WS THEN SkipWs(s, i + 1) ELSE i

RECURSIVE ScanString(_, _, _)
\* the body of a string literal from position j on: up to the closing quote, with
\* the escapes \" \\ \/ \n \r (and \n as the start of the word "null"); a control
\* character or any other escape is a decode error
ScanString(s, j, acc) ==
    IF j > Len(s) \/ s[j] \in {"CR", "LF"} THEN NoParse
    ELSE IF s[j] = Q THEN Parsed(JStr(acc), j + 1)
    ELSE IF s[j] = "\\" THEN
        IF j + 1 > Len(s) THEN NoParse
        ELSE IF s[j + 1] \in {Q, "\\", "/"} THEN ScanString(s, j + 2, Append(acc, s[j + 1]))
        ELSE IF s[j + 1] = "n" THEN ScanString(s, j + 2, Append(acc, "LF"))
        ELSE IF s[j + 1] = "r" THEN ScanString(s, j + 2, Append(acc, "CR"))
        ELSE IF s[j + 1] = "null" THEN ScanString(s, j + 2, acc \o <<"LF", "?">>)
        ELSE NoParse
    ELSE ScanString(s, j + 1, Append(acc, s[j]))

\* a string literal opening at s[i] = Q
ParseString(s, i) == ScanString(s, i + 1, <<>>)

RECURSIVE DigitsEnd(_, _)
DigitsEnd(s, i) == IF i <= Len(s) /\ s[i] \in Digits THEN DigitsEnd(s, i + 1) ELSE i

RECURSIVE ParseValue(_, _)
RECURSIVE ParseMembers(_, _, _)
RECURSIVE ParseElems(_, _, _)

\* the value opening at position i, "{" or "[" being followed at position j by the
\* closing bracket or by the first member
ValueAt(s, i, j) ==
    IF i > Len(s) THEN NoParse
    ELSE IF s[i] = Q THEN ParseString(s, i)
    ELSE IF s[i] = "{" THEN
        IF j <= Len(s) /\ s[j] = "}" THEN Parsed(JDict(<<>>), j + 1)
        ELSE ParseMembers(s, j, <<>>)
    ELSE IF s[i] = "[" THEN
        IF j <= Len(s) /\ s[j] = "]" THEN Parsed(JList(<<>>), j + 1)
        ELSE ParseElems(s, j, <<>>)
    ELSE IF s[i] = "null" THEN Parsed(JNone, i + 1)
    ELSE IF s[i] = "-" THEN
        IF i + 1 > Len(s) \/ s[i + 1] \notin Digits THEN NoParse
        ELSE IF s[i + 1] = "0" THEN Parsed(JInt(<<"-", "0">>), i + 2)
        ELSE Parsed(JInt(SubSeq(s, i, DigitsEnd(s, i + 1) - 1)), DigitsEnd(s, i + 1))
    ELSE IF s[i] = "0" THEN Parsed(JInt(<<"0">>), i + 1)
    ELSE IF s[i] \in Digits THEN
        Parsed(JInt(SubSeq(s, i, DigitsEnd(s, i) - 1)), DigitsEnd(s, i))
    ELSE NoParse

\* the value that starts at position p
ParseValue(s, p) ==
    CHOOSE r \in {ValueAt(s, i, j) : i \in {p}, j \in {SkipWs(s, p + 1)}} : TRUE

\* after a member: "}" ends the object, "," brings the next key
MemberEnd(s, e, acc) ==
    IF e > Len(s) THEN NoParse
    ELSE IF s[e] = "}" THEN Parsed(JDict(acc), e + 1)
    ELSE IF s[e] = "," THEN
        CHOOSE r \in {ParseMembers(s, i, acc) : i \in {SkipWs(s, e + 1)}} : TRUE
    ELSE NoParse

\* the member's value x is decoded: it is stored under the key k
AfterMember(s, k, x, acc) ==
    IF ~x.ok THEN NoParse
    ELSE CHOOSE r \in {MemberEnd(s, e, m) : e \in {SkipWs(s, x.next)},
                                            m \in {Put(acc, k.val.v, x.val)}} : TRUE

\* after the key k a colon is expected at position c, then the value
AfterKey(s, k, c, acc) ==
    IF ~k.ok \/ c > Len(s) \/ s[c] # ":" THEN NoParse
    ELSE CHOOSE r \in {AfterMember(s, k, x, acc) : x \in {ParseValue(s, SkipWs(s, c + 1))}} : TRUE

\* the key k opening a member
MemberKey(s, k, acc) ==
    IF ~k.ok THEN NoParse
    ELSE CHOOSE r \in {AfterKey(s, k, c, acc) : c \in {SkipWs(s, k.next)}} : TRUE

\* the members of an object from position i (a key is expected there)
ParseMembers(s, i, acc) ==
    IF i > Len(s) \/ s[i] # Q THEN NoParse
    ELSE CHOOSE r \in {MemberKey(s, k, acc) : k \in {ParseString(s, i)}} : TRUE

\* after an element: "]" ends the array, "," brings the next element
ElemEnd(s, e, acc) ==
    IF e > Len(s) THEN NoParse
    ELSE IF s[e] = "]" THEN Parsed(JList(acc), e + 1)
    ELSE IF s[e] = "," THEN
        CHOOSE r \in {ParseElems(s, i, acc) : i \in {SkipWs(s, e + 1)}} : TRUE
    ELSE NoParse

\* the element x is decoded: it is appended
AfterElem(s, x, acc) ==
    IF ~x.ok THEN NoParse
    ELSE CHOOSE r \in {ElemEnd(s, e, l) : e \in {SkipWs(s, x.next)},
                                          l \in {Append(acc, x.val)}} : TRUE

\* the elements of an array from position i (a value is expected there)
ParseElems(s, i, acc) ==
    CHOOSE r \in {AfterElem(s, x, acc) : x \in {ParseValue(s, i)}} : TRUE

\* the value x decoded from the start of s must be followed by white space only
WholeText(s, x0) ==
    CHOOSE r \in {IF x.ok /\ SkipWs(s, x.next) = Len(s) + 1 THEN x ELSE NoParse :
                  x \in {x0}} : TRUE

\* json.loads(s): one value, white space around it, nothing else
JsonLoads(txt) ==
    CHOOSE r \in {WholeText(s, ParseValue(s, SkipWs(s, 1))) : s \in {txt}} : TRUE

\* _json_or_none: the decoded value, None on JSONDecodeError
_json_or_none(txt) == JsonLoads(txt).val

----------------------------------------------------------------------------
(* The bundle parser *)

is_single_file_contract(src) ==
    LET txt == LStrip(src)
    IN  \/ StartsWith(txt, <<"pragma">>)
        \/ StartsWith(txt, <<"/", "/">>)
        \/ StartsWith(txt, <<"/", "*">>)
        \/ StartsWith(txt, <<"CR", "LF">>)

_double_curly_wrapped(txt) ==
    StartsWith(LStrip(txt), <<"{", "{">>) /\ EndsWith(RStrip(txt), <<"}", "}">>)

\* a mutant: two layers of braces are stripped instead of one
StripTwoLayers(txt) == Strip(Slice(Slice(txt)))

\* txt[1:-1].strip()
StripOneLayer(txt) == Strip(Slice(txt))

Returned(x) == [raised |-> FALSE, exc |-> "", value |-> x]

Raised(e) == [raised |-> TRUE, exc |-> e, value |-> JNone]

\* lines 34-35: a double-brace-wrapped text loses one layer of braces
Unwrap(txt) == IF _double_curly_wrapped(txt) THEN StripOneLayer(txt) ELSE txt

\* line 36: `first or _json_or_none(txt[1:-1])`
OrFallback(first, txt) ==
    CHOOSE r \in {IF Truthy(x) THEN x ELSE _json_or_none(Slice(txt)) : x \in {first}} : TRUE

\* lines 37-41: the bundle root of the decoded value
BundleRoot(parsed) ==
    IF ~Truthy(parsed)
    THEN Raised("RuntimeError: Could not decode SourceCode JSON bundle")
    ELSE IF parsed.t = "dict" /\ HasKey(parsed.v, <<"sources">>)
         THEN Returned(Get(parsed.v, <<"sources">>))
         ELSE Returned(parsed)

\* lines 36-41 on the stripped and unwrapped text
DecodeBundle(txt) ==
    CHOOSE r \in {BundleRoot(parsed) : parsed \in {OrFallback(_json_or_none(txt), txt)}} : TRUE

_parse_source_code_object(b) ==
    CHOOSE r \in {DecodeBundle(txt) : txt \in {Unwrap(Strip(b))}} : TRUE

\* the outcome of _sources_to_map: an exception, or the name -> content mapping as
\* <<name, content>> pairs in insertion order (names and contents are decoded
\* values: a name of a list bundle may be None or a number)
MapRaised(e) == [raised |-> TRUE, exc |-> e, map |-> <<>>]

MapReturned(m) == [raised |-> FALSE, exc |-> "", map |-> m]

\* `name, meta = e` for one element of a list bundle
Unpack(e) ==
    IF e.t = "list" THEN
        IF Len(e.v) = 2 THEN [ok |-> TRUE, exc |-> "", name |-> e.v[1], meta |-> e.v[2]]
        ELSE [ok |-> FALSE, exc |-> "ValueError", name |-> JNone, meta |-> JNone]
    ELSE IF e.t = "dict" THEN
        IF Len(e.v) = 2
        THEN [ok |-> TRUE, exc |-> "", name |-> JStr(e.v[1][1]), meta |-> JStr(e.v[2][1])]
        ELSE [ok |-> FALSE, exc |-> "ValueError", name |-> JNone, meta |-> JNone]
    ELSE IF e.t = "str" THEN
        IF Len(e.v) = 2 /\ CharLen(e.v[1]) = 1 /\ CharLen(e.v[2]) = 1
        THEN [ok |-> TRUE, exc |-> "", name |-> JStr(<<e.v[1]>>), meta |-> JStr(<<e.v[2]>>)]
        ELSE IF Len(e.v) = 1 /\ CharLen(e.v[1]) = 2
        THEN [ok |-> TRUE, exc |-> "", name |-> JStr(<<"?">>), meta |-> JStr(<<"?">>)]
        ELSE [ok |-> FALSE, exc |-> "ValueError", name |-> JNone, meta |-> JNone]
    ELSE [ok |-> FALSE, exc |-> "TypeError", name |-> JNone, meta |-> JNone]

RECURSIVE ListToMap(_, _, _)

\* one pass of the loop of the list branch, u being the unpacked element i
ListStep(l, i, out, u) ==
    IF ~u.ok THEN MapRaised(u.exc)
    ELSE IF u.meta.t = "dict" /\ ~HasKey(u.meta.v, <<"content">>) THEN MapRaised("KeyError")
    ELSE IF u.name.t \in {"list", "dict"} THEN MapRaised("TypeError")
    ELSE CHOOSE r \in {ListToMap(l, i + 1, m) :
                       m \in {Put(out, u.name,
                                  IF u.meta.t = "dict" THEN Get(u.meta.v, <<"content">>)
                                  ELSE u.meta)}} : TRUE

\* the loop of the list branch from element i on, out being the dict built so far
ListToMap(l, i, out) ==
    IF i > Len(l) THEN MapReturned(out)
    ELSE CHOOSE r \in {ListStep(l, i, out, u) : u \in {Unpack(l[i])}} : TRUE

_sources_to_map(parsed) ==
    IF parsed.t = "dict" THEN
        MapReturned([i \in 1..Len(parsed.v) |->
            LET meta == parsed.v[i][2]
            IN  <<JStr(parsed.v[i][1]),
                  IF meta.t = "dict" /\ HasKey(meta.v, <<"content">>)
                  THEN Get(meta.v, <<"content">>)
                  ELSE meta>>])
    ELSE IF parsed.t = "list" THEN ListToMap(parsed.v, 1, <<>>)
    ELSE MapRaised("RuntimeError: Unexpected JSON structure inside SourceCode bundle")

----------------------------------------------------------------------------
(* Paths and the file system *)

(***************************************************************************)
(* A path is a sequence of components from the file-system root, each      *)
(* component a text.  pathlib keeps ".." components; the operating system  *)
(* resolves them when the path is used (there are no symbolic links).  The *)
(* file system is [files, dirs]: the content of every regular file by its  *)
(* resolved path, and the resolved paths of the directories.               *)
(***************************************************************************)

RECURSIVE Split(_)
\* the components of a text between its "/" characters, empty ones dropped
Split(name) ==
    IF name = <<>> THEN <<>>
    ELSE IF Head(name) = "/" THEN Split(Tail(name))
    ELSE CHOOSE r \in {IF Len(name) > 1 /\ name[2] # "/" /\ rest # <<>>
                       THEN <<<<Head(name)>> \o Head(rest)>> \o Tail(rest)
                       ELSE <<<<Head(name)>>>> \o rest :
                       rest \in {Split(Tail(name))}} : TRUE

\* pathlib's dir / name: an absolute name replaces dir
PathJoin(dir, name) ==
    IF name # <<>> /\ Head(name) = "/" THEN Split(name) ELSE dir \o Split(name)

RECURSIVE Resolve(_)
\* the path the operating system reaches: ".." leaves a directory, the root's
\* parent is the root
Resolve(path) ==
    IF path = <<>> THEN <<>>
    ELSE CHOOSE r \in {IF path[Len(path)] = <<"..">>
                       THEN (IF up = <<>> THEN <<>> ELSE SubSeq(up, 1, Len(up) - 1))
                       ELSE Append(up, path[Len(path)]) :
                       up \in {Resolve(dir) : dir \in {SubSeq(path, 1, Len(path) - 1)}}} : TRUE

\* the pure path's parent: the path without its last component
Parent(path) == IF path = <<>> THEN <<>> ELSE SubSeq(path, 1, Len(path) - 1)

IsPrefix(a, b) == Len(a) <= Len(b) /\ SubSeq(b, 1, Len(a)) = a

\* the state a run of writes leaves: the file system, the writes done so far
\* (resolved path and content, in order) and the exception that ended the run
Running(fsys, log) == [fs |-> fsys, log |-> log, raised |-> FALSE, exc |-> ""]

Failed(st, e) == [st EXCEPT !.raised = TRUE, !.exc = e]

\* path.parent.mkdir(parents=True, exist_ok=True): every prefix of the directory
\* becomes a directory, unless the directory or one of the prefixes is a regular file
MkdirP(fsys, dir) ==
    CHOOSE r \in {IF \E d \in steps : d \in DOMAIN fsys.files
                  THEN [ok |-> FALSE, fs |-> fsys,
                        exc |-> IF Resolve(dir) \in DOMAIN fsys.files
                                THEN "FileExistsError" ELSE "NotADirectoryError"]
                  ELSE [ok |-> TRUE, fs |-> [fsys EXCEPT !.dirs = @ \cup steps], exc |-> ""] :
                  steps \in {{Resolve(d) : d \in {SubSeq(dir, 1, k) : k \in 0..Len(dir)}}}} : TRUE

\* path.write_text(content) once the parent directory is made
WriteText(st, made, target, content) ==
    IF ~made.ok THEN Failed(st, made.exc)
    ELSE IF content.t # "str" THEN Failed([st EXCEPT !.fs = made.fs], "TypeError")
    ELSE IF target \in made.fs.dirs
         THEN Failed([st EXCEPT !.fs = made.fs], "IsADirectoryError")
    ELSE IF \E k \in 0..(Len(target) - 1) : SubSeq(target, 1, k) \in DOMAIN made.fs.files
         THEN Failed([st EXCEPT !.fs = made.fs], "NotADirectoryError")
    ELSE [st EXCEPT
            !.fs = [files |-> [q \in DOMAIN made.fs.files \cup {target} |->
                                 IF q = target THEN content.v ELSE made.fs.files[q]],
                    dirs |-> made.fs.dirs],
            !.log = Append(@, [path |-> target, content |-> content.v])]

_write_file(st, path, content) ==
    CHOOSE r \in {WriteText(st, made, target, content) :
                  made \in {MkdirP(st.fs, dir) : dir \in {Parent(path)}},
                  target \in {Resolve(p) : p \in {path}}} : TRUE

----------------------------------------------------------------------------
(* The metadata filter and the source writer *)

(***************************************************************************)
(* A RawResult is a Python dict of str to str: <<key, value>> pairs in     *)
(* insertion order, keys and values texts.  An Optional[Set[str]] argument *)
(* is [given, keys]: given is FALSE for None.                              *)
(***************************************************************************)

NoKeys == [given |-> FALSE, keys |-> {}]

Keys(ks) == [given |-> TRUE, keys |-> ks]

\* result.get(k, default)
ResultGet(result, k, default) == IF HasKey(result, k) THEN Get(result, k) ELSE default

\* {k: v for k, v in m.items() if k in ks}
KeepIn(m, ks) == SelectSeq(m, LAMBDA kv : kv[1] \in ks)

\* {k: v for k, v in m.items() if k not in ks}
KeepNotIn(m, ks) == SelectSeq(m, LAMBDA kv : kv[1] \notin ks)

\* a mutant: the exclude branch keeps the excluded keys
FilterExcludeKept(metadata, include_keys, exclude_keys) ==
    IF include_keys.given THEN KeepIn(metadata, include_keys.keys)
    ELSE IF exclude_keys.given THEN KeepIn(metadata, exclude_keys.keys)
    ELSE metadata

filter_metadata(metadata, include_keys, exclude_keys) ==
    IF include_keys.given THEN KeepIn(metadata, include_keys.keys)
    ELSE IF exclude_keys.given THEN KeepNotIn(metadata, exclude_keys.keys)
    ELSE metadata

RECURSIVE Escape(_)
\* a str as json.dumps writes it between quotes
Escape(txt) ==
    IF txt = <<>> THEN <<>>
    ELSE (CASE Head(txt) = Q -> <<"\\", Q>>
            [] Head(txt) = "\\" -> <<"\\", "\\">>
            [] Head(txt) = "CR" -> <<"\\", "r">>
            [] Head(txt) = "LF" -> <<"\\", "n">>
            [] OTHER -> <<Head(txt)>>) \o Escape(Tail(txt))

RECURSIVE IndentPairs(_)
IndentPairs(m) ==
    IF m = <<>> THEN <<>>
    ELSE <<" ", " ", Q>> \o Escape(m[1][1]) \o <<Q, ":", " ", Q>> \o Escape(m[1][2]) \o <<Q>>
         \o (IF Len(m) = 1 THEN <<>> ELSE <<",", "LF">> \o IndentPairs(Tail(m)))

\* json.dumps(m, indent=2) of a dict of str to str
DumpsIndent(m) ==
    IF m = <<>> THEN <<"{", "}">> ELSE <<"{", "LF">> \o IndentPairs(m) \o <<"LF", "}">>

DigitOf == <<"0", "1", "2", "3", "4", "5", "6", "7", "8", "9">>

RECURSIVE IntStr(_)
\* str(i) for i >= 0
IntStr(i) == IF i < 10 THEN <<DigitOf[i + 1]>> ELSE IntStr(i \div 10) \o <<DigitOf[(i % 10) + 1]>>

\* f"Contract_{i}.sol"
Placeholder(i) == <<"Contract_">> \o IntStr(i) \o <<".sol">>

\* a mutant: the index of the placeholder name counts from 0
EntryTargetFromZero(name, i) == IF Truthy(name) THEN name ELSE JStr(Placeholder(i - 1))

\* name or f"Contract_{i}.sol"
EntryTarget(name, i) == IF Truthy(name) THEN name ELSE JStr(Placeholder(i))

RECURSIVE WriteEntries(_, _, _, _)

\* after the write of entry i: the exception ends the loop
NextEntry(st, m, i, outdir) == IF st.raised THEN st ELSE WriteEntries(st, m, i + 1, outdir)

\* _write_file(outdir / target, code) for entry i
WriteEntry(st, m, i, outdir, target) ==
    IF target.t # "str" THEN Failed(st, "TypeError")
    ELSE CHOOSE r \in {NextEntry(after, m, i, outdir) :
                       after \in {_write_file(st, PathJoin(outdir, target.v), m[i][2])}} : TRUE

\* the loop over enumerate(mapping.items(), 1) from entry i on
WriteEntries(st, m, i, outdir) ==
    IF i > Len(m) THEN st
    ELSE CHOOSE r \in {WriteEntry(st, m, i, outdir, target) :
                       target \in {EntryTarget(m[i][1], i)}} : TRUE

\* line 110: the loop runs over the mapping, unless _sources_to_map raised
WriteMapped(st, m, outdir) ==
    IF m.raised THEN Failed(st, m.exc) ELSE WriteEntries(st, m.map, 1, outdir)

\* lines 109-110: the mapping of the bundle root, unless the parser raised
WriteParsed(st, parsed, outdir) ==
    IF parsed.raised THEN Failed(st, parsed.exc)
    ELSE CHOOSE r \in {WriteMapped(st, mapping, outdir) :
                       mapping \in {_sources_to_map(parsed.value)}} : TRUE

\* f"{result.get('ContractName') or 'Contract'}.sol"
SingleFileName(result) ==
    (IF ResultGet(result, <<"ContractName">>, <<>>) = <<>>
     THEN <<"Contract">>
     ELSE ResultGet(result, <<"ContractName">>, <<>>)) \o <<".sol">>

\* lines 105-111: the single file, or the files of the bundle
WriteBundle(st, result, outdir) ==
    IF is_single_file_contract(ResultGet(result, <<"SourceCode">>, <<>>))
    THEN _write_file(st, PathJoin(outdir, SingleFileName(result)),
                     JStr(ResultGet(result, <<"SourceCode">>, <<>>)))
    ELSE CHOOSE r \in {WriteParsed(st, parsed, outdir) :
                       parsed \in {_parse_source_code_object(
                                      ResultGet(result, <<"SourceCode">>, <<>>))}} : TRUE

\* lines 113-114
SaveAbi(st, result, outdir, opts) ==
    IF st.raised \/ ~opts.save_abi THEN st
    ELSE _write_file(st, PathJoin(outdir, <<"abi.json">>),
                     JStr(ResultGet(result, <<"ABI">>, <<>>)))

\* lines 116-122
SaveMetadata(st, result, outdir, opts) ==
    IF st.raised \/ ~opts.save_metadata THEN st
    ELSE _write_file(st, PathJoin(outdir, <<"contract_metadata.json">>),
                     JStr(DumpsIndent(filter_metadata(result, opts.include_metadata_keys,
                                                      opts.exclude_metadata_keys))))

\* opts is [save_abi, save_metadata, include_metadata_keys, exclude_metadata_keys]
write_sources(st, result, outdir, opts) ==
    IF ResultGet(result, <<"SourceCode">>, <<>>) = <<>>
    THEN Failed(st, "RuntimeError: Contract is not verified or has no source")
    ELSE CHOOSE r \in {SaveMetadata(st2, result, outdir, opts) :
                       st2 \in {SaveAbi(st1, result, outdir, opts) :
                                  st1 \in {WriteBundle(st, result, outdir)}}} : TRUE

----------------------------------------------------------------------------
(* The fetch client and the recursive downloader *)

ZeroAddress == <<"0x0000000000000000000000000000000000000000">>

\* the all-zero address written with a capital X
ZeroAddressX == <<"0X0000000000000000000000000000000000000000">>

\* str.lower() of one token: the words of the vocabulary that hold capitals
LowerTok(tok) ==
    CASE tok = "0xA" -> "0xa"
      [] tok = "0xB" -> "0xb"
      [] tok = ZeroAddressX[1] -> ZeroAddress[1]
      [] OTHER -> tok

\* txt.lower()
Lower(txt) == [i \in 1..Len(txt) |-> LowerTok(txt[i])]

FetchRaised(e) == [raised |-> TRUE, exc |-> e, result |-> <<>>]

\* fetch_source: env is what the network and the API answer to the one GET
fetch_source(apikey, env) ==
    IF apikey = <<>> \/ apikey = <<"YOUR_ETHERSCAN_V2_API_KEY">>
    THEN FetchRaised("ValueError: API key not set at top of file")
    ELSE IF env.kind = "http" THEN FetchRaised("RuntimeError: HTTP request failed")
    ELSE IF env.kind = "status" THEN FetchRaised("RuntimeError: Etherscan error")
    ELSE IF env.kind = "empty" THEN FetchRaised("IndexError")
    ELSE [raised |-> FALSE, exc |-> "", result |-> env.result]

\* f"{result.get('ContractName', 'Contract')}-{address.lower()}" under outdir
BaseDir(outdir, result, address) ==
    PathJoin(outdir, ResultGet(result, <<"ContractName">>, <<"Contract">>)
                     \o <<"-">> \o Lower(address))

\* a mutant: the all-zero implementation address is followed like any other
FollowsProxyEvenZero(result) ==
    /\ ResultGet(result, <<"Proxy">>, <<>>) = <<"1">>
    /\ Lower(ResultGet(result, <<"Implementation">>, <<>>)) # <<>>

\* is_proxy and implementation and implementation != "0x00...00"
FollowsProxy(result) ==
    /\ ResultGet(result, <<"Proxy">>, <<>>) = <<"1">>
    /\ Lower(ResultGet(result, <<"Implementation">>, <<>>)) # <<>>
    /\ Lower(ResultGet(result, <<"Implementation">>, <<>>)) # ZeroAddress

Frame(address, outdir) ==
    [address |-> address, outdir |-> outdir, pc |-> "entry", result |-> <<>>,
     base_dir |-> <<>>]

Top == stack[Len(stack)]

Pop == SubSeq(stack, 1, Len(stack) - 1)

SetTop(f) == [stack EXCEPT ![Len(stack)] = f]

Active(p) == status = "running" /\ exc = "" /\ stack # <<>> /\ Top.pc = p

\* a mutant: the visited set is consulted before the address is lower-cased
EnterKeyRaw(address) == address

\* address = address.lower()
EnterKey(address) == Lower(address)

\* a mutant: the top-level call starts a new set whatever it was given
VisitedAlwaysNew == IF Len(stack) = 1 THEN {} ELSE visited

\* lines 160-161: the top-level call starts a new set when it was given none
_visited == IF Len(stack) = 1 /\ ~call.visited.given THEN {} ELSE visited

\* a mutant: the `return` after the cycle notice is missing
EnterNoReturn ==
    /\ Active("entry")
    /\ LET address == EnterKey(Top.address)
           seen == _visited
       IN  /\ visited' = seen \cup {address}
           /\ stack' = SetTop([Top EXCEPT !.address = address, !.pc = "fetch"])
    /\ UNCHANGED <<call, fetched, responses, written, disk, exc, status, pureVars>>

\* lines 163-169: the cycle guard
Enter ==
    /\ Active("entry")
    /\ LET address == EnterKey(Top.address)
           seen == _visited
       IN  IF address \in seen
           THEN /\ stack' = Pop
                /\ status' = IF Len(stack) = 1 THEN "returned" ELSE status
                /\ visited' = seen
           ELSE /\ visited' = seen \cup {address}
                /\ stack' = SetTop([Top EXCEPT !.address = address, !.pc = "fetch"])
                /\ status' = status
    /\ UNCHANGED <<call, fetched, responses, written, disk, exc, pureVars>>


\* line 171: the one GET of this call, answered by env
Fetch(env) ==
    /\ Active("fetch")
    /\ LET got == fetch_source(call.apikey, env)
       IN  /\ fetched' = Append(fetched, Top.address)
           /\ responses' = Append(responses, got.result)
           /\ exc' = got.exc
           /\ stack' = IF got.raised THEN stack
                       ELSE SetTop([Top EXCEPT !.result = got.result, !.pc = "write"])
    /\ UNCHANGED <<call, visited, written, disk, status, pureVars>>

\* lines 172-180: the directory of this contract and its files
Write ==
    /\ Active("write")
    /\ \E base_dir \in {BaseDir(Top.outdir, Top.result, Top.address)} :
       \E st \in {write_sources(Running(disk.fs, disk.log), Top.result, base_dir, call.opts)} :
          /\ written' = Append(written, Top.address)
          /\ disk' = [fs |-> st.fs, log |-> st.log]
          /\ exc' = st.exc
          /\ stack' = IF st.raised THEN stack
                      ELSE SetTop([Top EXCEPT !.base_dir = base_dir, !.pc = "proxy"])
    /\ UNCHANGED <<call, visited, fetched, responses, status, pureVars>>

\* result.get("Implementation", "").lower()
Implementation(result) == Lower(ResultGet(result, <<"Implementation">>, <<>>))

\* base_dir / f"implementation-{implementation}"
ImplDir(base_dir, implementation) == PathJoin(base_dir, <<"implementation-">> \o implementation)

\* lines 182-202: the proxy test, and the recursive call when it passes
Proxy ==
    /\ Active("proxy")
    /\ IF FollowsProxy(Top.result)
       THEN /\ stack' = Append(SetTop([Top EXCEPT !.pc = "await"]),
                               Frame(Implementation(Top.result),
                                     ImplDir(Top.base_dir, Implementation(Top.result))))
            /\ status' = status
       ELSE /\ stack' = Pop
            /\ status' = IF Len(stack) = 1 THEN "returned" ELSE status
    /\ UNCHANGED <<call, visited, fetched, responses, written, disk, exc, pureVars>>

\* the recursive call returned: the calling function ends too
Return ==
    /\ Active("await")
    /\ stack' = Pop
    /\ status' = IF Len(stack) = 1 THEN "returned" ELSE status
    /\ UNCHANGED <<call, visited, fetched, responses, written, disk, exc, pureVars>>

\* a mutant: the recursive call is wrapped in try/except and the failure is logged
UnwindSwallow ==
    /\ status = "running"
    /\ exc # ""
    /\ stack # <<>>
    /\ stack' = Pop
    /\ exc' = IF Len(stack) > 1 THEN "" ELSE exc
    /\ status' = IF Len(stack) = 1 THEN "raised" ELSE status
    /\ UNCHANGED <<call, visited, fetched, responses, written, disk, pureVars>>

\* no call has an exception handler: the exception leaves one call after the other
Unwind ==
    /\ status = "running"
    /\ exc # ""
    /\ stack # <<>>
    /\ stack' = Pop
    /\ status' = IF Len(stack) = 1 THEN "raised" ELSE status
    /\ UNCHANGED <<call, visited, fetched, responses, written, disk, exc, pureVars>>

----------------------------------------------------------------------------
(* The explorer API: the texts and results it sends *)

RECURSIVE Dumps(_)
RECURSIVE DumpPairs(_)
RECURSIVE DumpItems(_)

\* the compact JSON text of a decoded value
Dumps(x) ==
    IF x.t = "str" THEN <<Q>> \o x.v \o <<Q>>
    ELSE IF x.t = "dict" THEN <<"{">> \o DumpPairs(x.v) \o <<"}">>
    ELSE IF x.t = "list" THEN <<"[">> \o DumpItems(x.v) \o <<"]">>
    ELSE IF x.t = "int" THEN x.v
    ELSE <<"null">>

DumpPairs(m) ==
    IF m = <<>> THEN <<>>
    ELSE <<Q>> \o m[1][1] \o <<Q, ":">> \o Dumps(m[1][2])
         \o (IF Len(m) = 1 THEN <<>> ELSE <<",">> \o DumpPairs(Tail(m)))

DumpItems(l) ==
    IF l = <<>> THEN <<>>
    ELSE Dumps(l[1]) \o (IF Len(l) = 1 THEN <<>> ELSE <<",">> \o DumpItems(Tail(l)))


\* a key of a RawResult with its value
Field(k, x) == <<<<k>>, x>>

Some(x) == [given |-> TRUE, v |-> x]

Nothing == [given |-> FALSE, v |-> <<>>]

\* the field, or no field when the API leaves the key out
OptField(k, o) == IF o.given THEN <<Field(k, o.v)>> ELSE <<>>

SrcSingle == <<"pragma", " ", "srcA">>

\* "../../../../A.sol": a name that leaves every directory of the model
NameUp == <<"..", "/", "..", "/", "..", "/", "..", "/", "A.sol">>

\* "/work/out": an absolute name, the path of the output directory of the model
NameAbs == <<"/", "work", "/", "out">>

\* the addresses the API names as implementations, in either letter case
ImplAddresses == {<<"0xa">>, <<"0xA">>, <<"0xb">>, <<"0xB">>, <<"0xc">>}

\* results that differ in their proxy fields only
ProxyResults ==
    { <<Field("SourceCode", SrcSingle), Field("ContractName", <<"Token">>)>>
      \o OptField("Proxy", p) \o OptField("Implementation", i) :
        p \in {Nothing, Some(<<"0">>), Some(<<"1">>)},
        i \in {Nothing, Some(<<>>), Some(ZeroAddress), Some(ZeroAddressX)}
              \cup {Some(a) : a \in ImplAddresses} }

\* results of a proxy to 0xB that differ in their source and their name
SourceResults ==
    { <<Field("SourceCode", src)>> \o OptField("ContractName", c)
      \o <<Field("ABI", <<"[", "]">>), Field("Proxy", <<"1">>),
           Field("Implementation", <<"0xB">>)>> :
        src \in { <<>>,
                  <<"{">>,
                  <<"{">> \o Dumps(JDict(<<<<<<"lib", "/", "A.sol">>, JStr(<<"srcA">>)>>>>))
                          \o <<"}">>,
                  Dumps(JDict(<<<<NameUp, JStr(<<"srcA">>)>>>>)) },
        c \in {Nothing, Some(<<>>), Some(<<"..", "/", "..", "/", "..", "/", "Token">>)} }

\* what one GET can come back with
Env ==
    {[kind |-> k, result |-> <<>>] : k \in {"http", "status", "empty"}}
    \cup {[kind |-> "ok", result |-> r] : r \in ProxyResults \cup SourceResults}

OutDir == <<<<"work">>, <<"out">>>>

\* the file system before the call: the output directory may or may not exist
EmptyFs == [files |-> <<>>, dirs |-> {<<>>, <<<<"work">>>>}]

NoOpts ==
    [save_abi |-> FALSE, save_metadata |-> FALSE,
     include_metadata_keys |-> NoKeys, exclude_metadata_keys |-> NoKeys]

\* the options of src/test.py, with the ABI saved too
SideFileOpts ==
    [save_abi |-> TRUE, save_metadata |-> TRUE,
     include_metadata_keys |-> NoKeys,
     exclude_metadata_keys |-> Keys({<<"SourceCode">>})]

----------------------------------------------------------------------------
(* Spec: one top-level call of download_contract_source_recursive *)

ParseIdle ==
    /\ blob = <<>>
    /\ outT = Raised("")
    /\ outW = Raised("")
    /\ ppc = "idle"
    /\ nWrap = 0
    /\ nEdit = 0

FilterIdle ==
    /\ frec = <<>>
    /\ fkeys = {}
    /\ fres = [inc |-> <<>>, exc |-> <<>>, none |-> <<>>]
    /\ fpc = "idle"

WriteIdle ==
    /\ wcall = [result |-> <<>>, opts |-> NoOpts]
    /\ wst = Running(EmptyFs, <<>>)
    /\ wpc = "idle"

DlIdle ==
    /\ call = [address |-> <<>>, outdir |-> OutDir, apikey |-> <<>>, opts |-> NoOpts,
               visited |-> NoKeys]
    /\ stack = <<>>
    /\ visited = {}
    /\ fetched = <<>>
    /\ responses = <<>>
    /\ written = <<>>
    /\ disk = [fs |-> EmptyFs, log |-> <<>>]
    /\ exc = ""
    /\ status = "idle"

Init ==
    /\ ParseIdle
    /\ FilterIdle
    /\ WriteIdle
    /\ call \in [address : ImplAddresses,
                 outdir : {OutDir},
                 apikey : {<<>>, <<"YOUR_ETHERSCAN_V2_API_KEY">>, <<"KEY">>},
                 opts : {NoOpts, SideFileOpts},
                 visited : {NoKeys} \cup {Keys(ks) : ks \in SUBSET {<<"0xa">>, <<"0xb">>}}]
    /\ stack = <<Frame(call.address, call.outdir)>>
    /\ visited = call.visited.keys
    /\ fetched = <<>>
    /\ responses = <<>>
    /\ written = <<>>
    /\ disk = [fs |-> EmptyFs, log |-> <<>>]
    /\ exc = ""
    /\ status = "running"

Next ==
    \/ Enter
    \/ \E env \in Env : Fetch(env)
    \/ Write
    \/ Proxy
    \/ Return
    \/ Unwind

Spec == Init /\ [][Next]_vars

\* the interpreter always runs the next statement, and the GET has a timeout
FairSpec == Init /\ [][Next]_vars /\ WF_vars(Next)

----------------------------------------------------------------------------
(* ParseSpec: _parse_source_code_object on a text and on the text in braces *)

\* the longest run of brace layers added around a seed text
MaxWrap == 2

\* the number of single-token edits (white space inserted, a token lost)
MaxEdit == 1

FileA == <<<<"A.sol">>, JDict(<< <<<<"content">>, JStr(<<"srcA">>)>> >>)>>

FileB == <<<<"B.sol">>, JStr(<<"srcB">>)>>

\* decoded bundles of the shapes the API is known to send
SeedValues ==
    { JDict(<<>>),
      JDict(<<FileB>>),
      JDict(<<FileA, FileB>>),
      JDict(<< <<<<"sources">>, JDict(<<FileA>>)>> >>),
      JDict(<< <<<<"language">>, JStr(<<"Solidity">>)>>,
               <<<<"sources">>, JDict(<<FileA, FileB>>)>> >>),
      JDict(<< <<<<"sources">>, JDict(<<>>)>> >>),
      JDict(<< <<<<>>, JStr(<<"srcA">>)>> >>),
      JList(<< JList(<<JStr(<<"A.sol">>), JStr(<<"srcA">>)>>) >>) }

ParseInit ==
    /\ blob \in {Dumps(x) : x \in SeedValues}
    /\ outT = Raised("")
    /\ outW = Raised("")
    /\ ppc = "build"
    /\ nWrap = 0
    /\ nEdit = 0
    /\ FilterIdle
    /\ WriteIdle
    /\ DlIdle

\* the API wraps the text in one more layer of braces
Wrap ==
    /\ ppc = "build"
    /\ nWrap < MaxWrap
    /\ blob' = <<"{">> \o blob \o <<"}">>
    /\ nWrap' = nWrap + 1
    /\ UNCHANGED <<outT, outW, ppc, nEdit, filterVars, writeVars, dlVars>>

\* white space appears in the text
Pad ==
    /\ ppc = "build"
    /\ nEdit < MaxEdit
    /\ \E i \in 0..Len(blob) :
          blob' = SubSeq(blob, 1, i) \o <<" ">> \o SubSeq(blob, i + 1, Len(blob))
    /\ nEdit' = nEdit + 1
    /\ UNCHANGED <<outT, outW, ppc, nWrap, filterVars, writeVars, dlVars>>

\* the text is malformed: one token is missing
Cut ==
    /\ ppc = "build"
    /\ nEdit < MaxEdit
    /\ \E i \in 1..Len(blob) :
          blob' = SubSeq(blob, 1, i - 1) \o SubSeq(blob, i + 1, Len(blob))
    /\ nEdit' = nEdit + 1
    /\ UNCHANGED <<outT, outW, ppc, nWrap, filterVars, writeVars, dlVars>>

\* _parse_source_code_object is applied to T and to "{" + T + "}"
Decode ==
    /\ ppc = "build"
    /\ outT' = _parse_source_code_object(blob)
    /\ outW' = _parse_source_code_object(<<"{">> \o blob \o <<"}">>)
    /\ ppc' = "done"
    /\ UNCHANGED <<blob, nWrap, nEdit, filterVars, writeVars, dlVars>>

ParseNext == Wrap \/ Pad \/ Cut \/ Decode

ParseSpec == ParseInit /\ [][ParseNext]_vars

\* two outcomes of the parser agree: the same exception, or the same bundle root
SameOutcome(a, b) ==
    /\ a.raised = b.raised
    /\ a.exc = b.exc
    /\ Dumps(a.value) = Dumps(b.value)

\* T is the text of a JSON object: "{...}" that json.loads decodes to a dict
IsObjectText(s) ==
    /\ s # <<>>
    /\ s[1] = "{"
    /\ s[Len(s)] = "}"
    /\ JsonLoads(s).ok
    /\ JsonLoads(s).val.t = "dict"

\* C8: for every JSON-object text T, the double-brace-wrapped text "{" + T + "}"
\* decodes to the same outcome as T: the same bundle root or the same failure.
C8_DoubleBraceSameAsUnwrapped ==
    (ppc = "done" /\ IsObjectText(blob)) => SameOutcome(outT, outW)

\* C8 witness: an object text with a `sources` key was decoded both ways and the
\* wrapped text gave the nested sources value
C8_Witness ==
    /\ ppc = "done"
    /\ IsObjectText(blob)
    /\ HasKey(JsonLoads(blob).val.v, <<"sources">>)
    /\ ~outW.raised
    /\ Dumps(outW.value) = Dumps(Get(JsonLoads(blob).val.v, <<"sources">>))
    /\ Truthy(outW.value)

----------------------------------------------------------------------------
(* Claims about the recursive downloader (Spec, FairSpec) *)

\* no two positions of a log of addresses hold the same address, letter case aside
NoRepeat(log) ==
    \A i, j \in 1..Len(log) : Lower(log[i]) = Lower(log[j]) => i = j

\* the API described the chain A -> B -> A: the top-level address A is a proxy to
\* another address B, and B is a proxy back to A
ChainABA ==
    /\ Len(fetched) >= 2
    /\ FollowsProxy(responses[1])
    /\ Implementation(responses[1]) # Lower(call.address)
    /\ FollowsProxy(responses[2])
    /\ Implementation(responses[2]) = Lower(call.address)

\* C1: within one top-level call every address, letter case aside, is fetched at
\* most once and written at most once, whatever proxy graph the API describes; in
\* the chain A -> B -> A exactly A and B are fetched and written, once each.
C1_EachAddressOnce ==
    /\ NoRepeat(fetched)
    /\ NoRepeat(written)
    /\ (ChainABA /\ status = "returned") =>
          /\ fetched = <<Lower(call.address), Implementation(responses[1])>>
          /\ written = fetched

\* C1 witness: the call for 0xA returned after the chain 0xa -> 0xb -> 0xa
C1_Witness ==
    /\ status = "returned"
    /\ ChainABA
    /\ call.address = <<"0xA">>
    /\ fetched = <<<<"0xa">>, <<"0xb">>>>
    /\ written = fetched

\* C2: the top-level call always ends (it returns or raises), and it does so after
\* at most one fetch per distinct address.
C2_Terminates ==
    /\ <>(status \in {"returned", "raised"})
    /\ [](Len(fetched) <= Cardinality({Lower(fetched[i]) : i \in 1..Len(fetched)}))

\* C2 witness: a contract that names itself as its implementation was fetched
\* once and the call returned
C2_Witness ==
    /\ status = "returned"
    /\ Len(fetched) = 1
    /\ FollowsProxy(responses[1])
    /\ Implementation(responses[1]) = fetched[1]

\* the top-level call was given a _visited set that holds the lower-cased address
Preseeded == call.visited.given /\ Lower(call.address) \in call.visited.keys

\* C3: a call whose _visited set already holds the lower-cased target address
\* returns without an error, fetches nothing, writes nothing and leaves the set
\* as it was.
C3_PreseededSkips ==
    Preseeded =>
        /\ fetched = <<>>
        /\ written = <<>>
        /\ disk = [fs |-> EmptyFs, log |-> <<>>]
        /\ visited = call.visited.keys
        /\ exc = ""
        /\ IF stack = <<>> THEN status = "returned"
           ELSE status = "running" /\ Len(stack) = 1 /\ Top.pc = "entry"

\* C3 witness: the call for 0xA with 0xa already visited has returned
C3_Witness ==
    /\ Preseeded
    /\ call.address = <<"0xA">>
    /\ status = "returned"

\* the proxy test as the claim states it
C4_Condition(result) ==
    /\ HasKey(result, <<"Proxy">>)
    /\ Get(result, <<"Proxy">>) = <<"1">>
    /\ HasKey(result, <<"Implementation">>)
    /\ Get(result, <<"Implementation">>) # <<>>
    /\ Get(result, <<"Implementation">>) \notin {ZeroAddress, ZeroAddressX}

\* the call that the proxy test starts: for the lower-cased implementation
\* address, into <this contract's directory>/implementation-<that address>
C4_Callee(frame) ==
    Frame(Lower(Get(frame.result, <<"Implementation">>)),
          Append(frame.base_dir,
                 <<"implementation-">> \o Lower(Get(frame.result, <<"Implementation">>))))

\* C4: after the sources are written the downloader recurses exactly when Proxy is
\* "1" and Implementation is present, non-empty and not the all-zero address;
\* otherwise the call ends and nothing more is fetched.  The recursive call gets
\* the same visited set and the directory implementation-<lower-cased address>
\* under this contract's directory.
C4_ProxyRecursion ==
    /\ [](\A i \in 2..Len(fetched) :
            /\ C4_Condition(responses[i - 1])
            /\ fetched[i] = Lower(Get(responses[i - 1], <<"Implementation">>)))
    /\ [][Active("proxy") =>
            IF C4_Condition(Top.result)
            THEN /\ stack' = Append(SetTop([Top EXCEPT !.pc = "await"]), C4_Callee(Top))
                 /\ visited' = visited
            ELSE /\ stack' = Pop
                 /\ fetched' = fetched]_vars

\* C4 witness: the proxy at 0xa named 0xB and the call for 0xb has started
C4_Witness ==
    /\ Len(stack) = 2
    /\ stack[1].pc = "await"
    /\ Get(stack[1].result, <<"Implementation">>) = <<"0xB">>
    /\ stack[2] = Frame(<<"0xb">>,
                        <<<<"work">>, <<"out">>, <<"Token", "-", "0xa">>,
                          <<"implementation-", "0xb">>>>)

\* C5: a failure of fetch_source or write_sources at any depth is neither caught nor
\* retried: it leaves one call after the other unchanged, nothing is fetched or
\* written after it, and the top-level call raises it.
C5_FailurePropagates ==
    /\ [](status = "returned" => exc = "")
    /\ [](status = "raised" => exc # "" /\ stack = <<>>)
    /\ [][exc # "" =>
            /\ exc' = exc
            /\ fetched' = fetched
            /\ written' = written
            /\ disk' = disk
            /\ Len(stack') < Len(stack)]_vars

\* C5 witness: the fetch of an implementation address failed at depth two and the
\* top-level call raised that failure
C5_Witness ==
    /\ status = "raised"
    /\ Len(fetched) = 2
    /\ Len(written) = 1
    /\ exc = "RuntimeError: HTTP request failed"

\* C10: every file written during a download lies inside the output directory the
\* caller gave.
C10_WritesInsideOutdir ==
    \A i \in 1..Len(disk.log) : IsPrefix(call.outdir, disk.log[i].path)

----------------------------------------------------------------------------
(* FilterSpec: filter_metadata on a record and a key set *)

\* the fields a metadata record is drawn from, in the order the API sends them
BaseRecord ==
    <<Field("SourceCode", SrcSingle), Field("ContractName", <<"Token">>),
      Field("ABI", <<"[", "]">>), Field("Proxy", <<"0">>)>>

\* the keys a key set is drawn from: "License" is a key no record has
FilterKeys == {<<"SourceCode">>, <<"ContractName">>, <<"ABI">>, <<"Proxy">>, <<"License">>}

\* the keys of a record
KeysOf(m) == {m[i][1] : i \in 1..Len(m)}

FilterInit ==
    /\ \E keep \in SUBSET KeysOf(BaseRecord) : frec = KeepIn(BaseRecord, keep)
    /\ fkeys \in SUBSET FilterKeys
    /\ fres = [inc |-> <<>>, exc |-> <<>>, none |-> <<>>]
    /\ fpc = "call"
    /\ ParseIdle
    /\ WriteIdle
    /\ DlIdle

\* filter_metadata is called three times on the record: with include_keys = A, with
\* exclude_keys = (keys of the record) minus A, and with neither
Filter ==
    /\ fpc = "call"
    /\ fres' = [inc |-> filter_metadata(frec, Keys(fkeys), NoKeys),
                exc |-> filter_metadata(frec, NoKeys, Keys(KeysOf(frec) \ fkeys)),
                none |-> filter_metadata(frec, NoKeys, NoKeys)]
    /\ fpc' = "done"
    /\ UNCHANGED <<frec, fkeys, parseVars, writeVars, dlVars>>

FilterNext == Filter

FilterSpec == FilterInit /\ [][FilterNext]_vars

\* C6: filter_metadata(record, include_keys=A) and filter_metadata(record,
\* exclude_keys=keys(record) minus A) return the same mapping: the fields of the
\* record whose key is in A, in the record's order (a key of A the record lacks
\* is dropped); with both arguments None the result equals the record; the record
\* itself is left as it was.
C6_IncludeEqualsExcludeOfRest ==
    /\ [](fpc = "done" =>
            /\ fres.inc = fres.exc
            /\ KeysOf(fres.inc) = KeysOf(frec) \cap fkeys
            /\ \A i \in 1..Len(fres.inc) : \E j \in 1..Len(frec) : fres.inc[i] = frec[j]
            /\ Len(fres.inc) = Cardinality(KeysOf(fres.inc))
            /\ fres.none = frec)
    /\ [][frec' = frec]_vars

\* C6 witness: a key set with a key of the record, a key the record lacks and
\* without another key of the record was applied: the results kept one field
C6_Witness ==
    /\ fpc = "done"
    /\ fkeys = {<<"ABI">>, <<"License">>}
    /\ Len(frec) = 4
    /\ fres.inc = <<Field("ABI", <<"[", "]">>)>>
    /\ fres.exc = fres.inc

----------------------------------------------------------------------------
(* WriteSpec: write_sources on one result *)

\* the largest number of entries of a bundle
MaxFiles == 2

\* the file names of a bundle: empty, plain, in a directory, the name of the ABI
\* side file, a name that climbs out of every directory and an absolute name
EntryNames ==
    {JStr(<<>>), JStr(<<"A.sol">>), JStr(<<"lib", "/", "A.sol">>), JStr(<<"abi.json">>),
     JStr(NameUp), JStr(NameAbs)}

\* the meta of an entry: the source text, or an object that holds it as `content`
EntryMetas == {JStr(<<"srcA">>), JDict(<< <<<<"content">>, JStr(<<"srcB">>)>> >>)}

\* the sequences of 1..MaxFiles entries with names from ns
EntrySeqs(ns) == UNION {[1..n -> [name : ns, meta : EntryMetas]] : n \in 1..MaxFiles}

\* an object bundle: its members in the order of the text (a name may repeat)
ObjectOf(es) == JDict([i \in 1..Len(es) |-> <<es[i].name.v, es[i].meta>>])

\* the standard-JSON-input form: the files under the key `sources`
StandardOf(es) ==
    JDict(<< <<<<"language">>, JStr(<<"Solidity">>)>>, <<<<"sources">>, ObjectOf(es)>> >>)

\* a list bundle: [name, meta] pairs, a name may be null
ListOf(es) == JList([i \in 1..Len(es) |-> JList(<<es[i].name, es[i].meta>>)])

\* the SourceCode texts of the bundles
BundleTexts ==
    UNION {{Dumps(ObjectOf(es)), Dumps(StandardOf(es)),
            <<"{">> \o Dumps(StandardOf(es)) \o <<"}">>} : es \in EntrySeqs(EntryNames)}
    \cup {Dumps(ListOf(es)) : es \in EntrySeqs(EntryNames \cup {JNone})}

\* the results write_sources is called with
WriteResults ==
    {<<Field("SourceCode", src), Field("ContractName", <<"Token">>),
       Field("ABI", <<"[", "]">>)>> : src \in BundleTexts \cup {SrcSingle}}

\* the file system with the target directory already made, and empty
MadeFs == [files |-> <<>>, dirs |-> {<<>>, <<<<"work">>>>, OutDir}]

WriteInit ==
    /\ wcall \in [result : WriteResults, opts : {NoOpts, SideFileOpts}]
    /\ wst \in {Running(EmptyFs, <<>>), Running(MadeFs, <<>>)}
    /\ wpc = "call"
    /\ ParseIdle
    /\ FilterIdle
    /\ DlIdle

\* write_sources(result, OutDir, **opts)
WriteCall ==
    /\ wpc = "call"
    /\ wst' = write_sources(wst, wcall.result, OutDir, wcall.opts)
    /\ wpc' = "done"
    /\ UNCHANGED <<wcall, parseVars, filterVars, dlVars>>

WriteNext == WriteCall

WriteSpec == WriteInit /\ [][WriteNext]_vars

\* result.get("SourceCode", "") of the call
SrcBlob == ResultGet(wcall.result, <<"SourceCode">>, <<>>)

\* the call takes the bundle branch (lines 108-111), not the single-file branch
IsBundleCall == SrcBlob # <<>> /\ ~is_single_file_contract(SrcBlob)

\* the decoded bundle of the call, or the exception of the parser
DecodedBundle == _parse_source_code_object(SrcBlob)

\* the entries of a decoded bundle in iteration order: the members of an object,
\* the [name, meta] pairs of a list
DecodedEntries(parsed) ==
    IF parsed.t = "dict"
    THEN [i \in 1..Len(parsed.v) |-> [name |-> JStr(parsed.v[i][1]), meta |-> parsed.v[i][2]]]
    ELSE [i \in 1..Len(parsed.v) |-> [name |-> parsed.v[i].v[1], meta |-> parsed.v[i].v[2]]]

\* the normalized mapping of the call: what _sources_to_map makes of the bundle
Mapping == _sources_to_map(DecodedBundle.value)

\* a file name that is empty or absent
NameMissing(name) == name.t = "none" \/ (name.t = "str" /\ name.v = <<>>)

\* target_dir/Contract_<i>.sol
PlaceholderPath(i) == Append(OutDir, Placeholder(i))

BundlePairs ==
    {<<Split(EntryTarget(Mapping.map[k][1], k).v), Mapping.map[k][2].v>> :
        k \in 1..Len(Mapping.map)}

\* the relative paths of the side files the options ask for
SideFiles ==
    (IF wcall.opts.save_abi THEN {<<<<"abi.json">>>>} ELSE {})
    \cup (IF wcall.opts.save_metadata THEN {<<<<"contract_metadata.json">>>>} ELSE {})

\* the regular files under target_dir as (relative path, content) pairs, the side
\* files left out
ReadBack ==
    {<<SubSeq(q, Len(OutDir) + 1, Len(q)), wst.fs.files[q]>> :
        q \in {f \in DOMAIN wst.fs.files :
                 /\ IsPrefix(OutDir, f)
                 /\ f # OutDir
                 /\ SubSeq(f, Len(OutDir) + 1, Len(f)) \notin SideFiles}}

\* C9 as stated: after write_sources returned from writing a bundle into an empty
\* target directory, the files of the directory tree, side files apart, are
\* exactly the (name, content) pairs of the bundle.
C9_RoundTrip ==
    (wpc = "done" /\ ~wst.raised /\ IsBundleCall) => ReadBack = BundlePairs

=============================================================================
